---- MODULE Spec2Model ----
(***************************************************************************)
(* A model of fsa.py, the file system audit tool: the FileMeta record, the *)
(* FileMetaCollection snapshot with its indexes, the key value superset,   *)
(* the n-way group_diff, the diff command that drives them, the audit      *)
(* command's output loop with the files it writes, and the walk over the   *)
(* file system with its ignore patterns.                                   *)
(*                                                                         *)
(* Python values are tagged, [t, s, n]: a str carries its text in s, an    *)
(* int its value in n, a float its value in halves in n (the model's       *)
(* timestamps are multiples of 0.5, which Python prints exactly).          *)
(* An OrderedDict (and a dict, which only sees "in", len and item access)  *)
(* is the sequence of its <<key, value>> items in insertion order.         *)
(* An exception is a result record with ok = FALSE and the exception name. *)
(* A path of the walk is the sequence of its characters, so that           *)
(* os.path.split, os.path.join and fnmatch work on it as they do on a str. *)
(***************************************************************************)
EXTENDS Integers, Sequences, FiniteSets

VARIABLES
    \* cmd_diff
    pc,                     \* where the command stands
    err,                    \* the exception that ended the run, "" if none
    raw_meta_data,          \* per archive, the JSON entries read so far
    collection,             \* the FileMetaCollection under construction
    file_meta_collections,  \* the loaded collections, in args.diff order
    primary_key_values,     \* the superset of paths
    key_pos,                \* index of the next file_key of the row loop
    meta_list,              \* the last meta_list handed to group_diff
    diff,                   \* the last result of group_diff
    stdout,                 \* the lines printed so far
    \* group_diff on its own
    meta_files,             \* the input list
    result,                 \* group_diff(INTERESTING_KEYS, meta_files)
    permutation,            \* a permutation of the input's positions
    permuted_result,        \* group_diff on the permuted list
    \* cmd_walk, and the reload of what it wrote
    args,                   \* the command line: string, csv, json
    meta_file_collection,   \* the collection cmd_walk fills, or None
    json_file,              \* the file to_json wrote, None before
    csv_file,               \* the file to_csv wrote, None before
    reloaded,               \* the collection from_json_file built from it
    \* walk_path and ignore_file under cmd_walk
    fault,                  \* what is wrong with the file system, if anything
    path_pos,               \* index into args.path of cmd_walk's loop
    walk_dirs,              \* the directories os.walk has yet to list
    walk_root,              \* root of the triple os.walk gave last
    walk_files,             \* files of that triple not yet looked at
    cur_file_path,          \* walk_path's file_path, the file it decides on
    ignore_path,            \* ignore_file's loop variable
    iterations,             \* iterations of ignore_file's loop so far
    swallowed               \* directories whose listing error os.walk dropped

diffVars == <<pc, err, raw_meta_data, collection, file_meta_collections,
              primary_key_values, key_pos, meta_list, diff, stdout>>
groupVars == <<meta_files, result, permutation, permuted_result>>
auditVars == <<args, meta_file_collection, json_file, csv_file, reloaded>>
walkVars == <<fault, path_pos, walk_dirs, walk_root, walk_files,
              cur_file_path, ignore_path, iterations, swallowed>>
vars == <<diffVars, groupVars, auditVars, walkVars>>

----------------------------------------------------------------------------
(* Bounds of the model *)

\* archives given to --diff
MaxArchives == 2
\* JSON entries read over all archives of one diff run
MaxRecords == 4
\* length of the list handed to group_diff on its own
MaxMetaFiles == 4
\* files one audit run yields
MaxFiles == 3
\* iterations of ignore_file's loop the model follows on one path
MaxIterations == 10

----------------------------------------------------------------------------
(* Python values *)

PyStr(s) == [t |-> "str", s |-> s, n |-> 0]
PyInt(n) == [t |-> "int", s |-> "", n |-> n]
\* a float, given in halves: PyFloat(3) is 1.5
PyFloat(h) == [t |-> "float", s |-> "", n |-> h]

None == [py_none |-> TRUE]

\* a list, where the code tells it from a str
PyList(items) == [t |-> "list", s |-> "", n |-> 0, items |-> items]

\* a == b on str, int, float and None: numbers are compared by value, so
\* that 1 == 1.0, everything else by kind and content
PyEq(a, b) ==
    IF a = b THEN TRUE
    ELSE IF a = None \/ b = None THEN FALSE
    ELSE /\ a.t \in {"int", "float"}
         /\ b.t \in {"int", "float"}
         /\ (IF a.t = "int" THEN 2 * a.n ELSE a.n)
                = (IF b.t = "int" THEN 2 * b.n ELSE b.n)

\* an exception that leaves a function in place of its value
Raised(exception) == [ok |-> FALSE, err |-> exception]

Range(seq) == {seq[i] : i \in 1..Len(seq)}

Max(S) == CHOOSE x \in S : \A y \in S : y <= x

----------------------------------------------------------------------------
(* OrderedDict / dict *)

OdEmpty == <<>>

OdKeys(d) == [i \in 1..Len(d) |-> d[i][1]]

OdValues(d) == [i \in 1..Len(d) |-> d[i][2]]

\* A dict whose keys are Python values, the attribute values of Records:
\* keys are one when they are ==, and the key first set is the one kept

\* k in d
OdHas(d, k) == \E i \in 1..Len(d) : PyEq(d[i][1], k)

\* d.get(k, default)
OdGet(d, k, default) ==
    IF OdHas(d, k)
    THEN d[CHOOSE i \in 1..Len(d) : PyEq(d[i][1], k)][2]
    ELSE default

\* d[k] = v: a new key goes last, a known key keeps its place and itself
OdSet(d, k, v) ==
    IF OdHas(d, k)
    THEN [i \in 1..Len(d) |->
             IF PyEq(d[i][1], k) THEN <<d[i][1], v>> ELSE d[i]]
    ELSE Append(d, <<k, v>>)

\* A dict whose keys are attribute names, or tuples of names and ids: str
\* and int only, for which == is sameness

NameHas(d, k) == \E i \in 1..Len(d) : d[i][1] = k

NameGet(d, k, default) ==
    IF NameHas(d, k)
    THEN d[CHOOSE i \in 1..Len(d) : d[i][1] = k][2]
    ELSE default

NameSet(d, k, v) ==
    IF NameHas(d, k)
    THEN [i \in 1..Len(d) |-> IF d[i][1] = k THEN <<k, v>> ELSE d[i]]
    ELSE Append(d, <<k, v>>)

\* d.update(other): other's items set one by one, in other's order
RECURSIVE OdUpdate(_, _)
OdUpdate(d, other) ==
    IF other = <<>> THEN d
    ELSE OdUpdate(OdSet(d, other[1][1], other[1][2]), Tail(other))

----------------------------------------------------------------------------
(* FileMeta *)

KEYS == <<"name", "path", "mode", "uid", "gid", "size", "atime", "mtime",
          "ctime", "hash">>

\* FileMeta.from_dict: the ten reads, in order; the first missing key raises
FromDict(import_dict) ==
    IF \E i \in 1..Len(KEYS) : KEYS[i] \notin DOMAIN import_dict
    THEN [ok |-> FALSE, err |-> "KeyError", meta |-> None]
    ELSE [ok |-> TRUE, err |-> "",
          meta |-> [name |-> import_dict["name"],
                    path |-> import_dict["path"],
                    mode |-> import_dict["mode"],
                    uid |-> import_dict["uid"],
                    gid |-> import_dict["gid"],
                    size |-> import_dict["size"],
                    atime |-> import_dict["atime"],
                    mtime |-> import_dict["mtime"],
                    ctime |-> import_dict["ctime"],
                    hash_value |-> import_dict["hash"]]]

\* FileMeta(from_dict=d): an empty dict is falsy, so __init__ takes the
\* os.stat(file_path) branch with file_path None, which raises TypeError
FileMetaInit(from_dict) ==
    IF DOMAIN from_dict = {}
    THEN [ok |-> FALSE, err |-> "TypeError", meta |-> None]
    ELSE FromDict(from_dict)

\* FileMeta.to_dict: the OrderedDict of the ten items
ToDict(meta) ==
    << <<"name", meta.name>>, <<"path", meta.path>>, <<"mode", meta.mode>>,
       <<"uid", meta.uid>>, <<"gid", meta.gid>>, <<"size", meta.size>>,
       <<"atime", meta.atime>>, <<"mtime", meta.mtime>>,
       <<"ctime", meta.ctime>>, <<"hash", meta.hash_value>> >>

\* FileMeta.__getitem__
GetItem(meta, attr) ==
    LET a == IF attr = "hash" THEN "hash_value" ELSE attr
    IN meta[a]

----------------------------------------------------------------------------
(* FileMetaCollection *)

\* OrderedDict((k, OrderedDict()) for k in index_keys): a key given twice is
\* one key
RECURSIVE EmptyIndexes(_)
EmptyIndexes(index_keys) ==
    IF index_keys = <<>> THEN OdEmpty
    ELSE NameSet(EmptyIndexes(SubSeq(index_keys, 1, Len(index_keys) - 1)),
                 index_keys[Len(index_keys)], OdEmpty)

\* the loop of add over index_keys[from..]
RECURSIVE AddIndexed(_, _, _, _)
AddIndexed(meta_indexed, index_keys, meta, from) ==
    IF from > Len(index_keys) THEN meta_indexed
    ELSE LET key == index_keys[from]
             index == NameGet(meta_indexed, key, OdEmpty)
         IN AddIndexed(NameSet(meta_indexed, key,
                               OdSet(index, GetItem(meta, key), meta)),
                       index_keys, meta, from + 1)

\* add, were a known key value to keep its first Record
AddFirstWins(self, meta) ==
    IF OdHas(NameGet(self.meta_indexed, "path", OdEmpty),
             GetItem(meta, "path"))
    THEN [self EXCEPT !.meta_list = Append(self.meta_list, meta)]
    ELSE [self EXCEPT !.meta_list = Append(self.meta_list, meta),
                      !.meta_indexed = AddIndexed(self.meta_indexed,
                                                  self.index_keys, meta, 1)]

\* FileMetaCollection.add
Add(self, meta) ==
    [self EXCEPT !.meta_list = Append(self.meta_list, meta),
                 !.meta_indexed = AddIndexed(self.meta_indexed,
                                             self.index_keys, meta, 1)]

\* FileMetaCollection.from_iterable
RECURSIVE FromIterable(_, _)
FromIterable(self, iterable) ==
    IF iterable = <<>> THEN self
    ELSE FromIterable(Add(self, iterable[1]), Tail(iterable))

\* FileMetaCollection(index_keys, name, from_iterable): a str index_keys
\* becomes a list of one; from_json_file is FromJsonFile on the result
NewCollection(index_keys, name, from_iterable) ==
    LET keys == IF index_keys.t = "str" THEN <<index_keys.s>>
                ELSE index_keys.items
    IN FromIterable([name |-> name,
                     index_keys |-> keys,
                     meta_list |-> <<>>,
                     meta_indexed |-> EmptyIndexes(keys)],
                    from_iterable)

\* FileMetaCollection.get_meta_index: meta_indexed[key] raises KeyError for
\* a key the collection does not index
GetMetaIndex(self, key) ==
    IF NameHas(self.meta_indexed, key)
    THEN NameGet(self.meta_indexed, key, OdEmpty)
    ELSE Raised("KeyError")

\* FileMetaCollection.get_meta: likewise, then .get(value, None)
GetMeta(self, key, value) ==
    IF NameHas(self.meta_indexed, key)
    THEN OdGet(NameGet(self.meta_indexed, key, OdEmpty), value, None)
    ELSE Raised("KeyError")

----------------------------------------------------------------------------
(* get_key_value_superset *)

\* the loop over file_meta_collections: get_meta_index raises KeyError at the
\* first collection that does not index primary_key, and the dict then holds
\* what the collections before it gave
RECURSIVE SupersetUpdate(_, _, _)
SupersetUpdate(primary_key_value_dict, collections, primary_key) ==
    IF collections = <<>>
    THEN [ok |-> TRUE, err |-> "",
          primary_key_value_dict |-> primary_key_value_dict]
    ELSE IF ~NameHas(collections[1].meta_indexed, primary_key)
    THEN [ok |-> FALSE, err |-> "KeyError",
          primary_key_value_dict |-> primary_key_value_dict]
    ELSE SupersetUpdate(
             OdUpdate(primary_key_value_dict,
                      GetMetaIndex(collections[1], primary_key)),
             Tail(collections), primary_key)

\* the superset, were a key met again to move to the end
RECURSIVE LastSeen(_)
LastSeen(seq) ==
    IF seq = <<>> THEN <<>>
    ELSE LET rest == LastSeen(Tail(seq))
         IN IF seq[1] \in Range(rest) THEN rest ELSE <<seq[1]>> \o rest

RECURSIVE IndexKeys(_, _)
IndexKeys(collections, primary_key) ==
    IF collections = <<>> THEN <<>>
    ELSE OdKeys(GetMetaIndex(collections[1], primary_key)) \o
         IndexKeys(Tail(collections), primary_key)

GetKeyValueSupersetLastSeen(collections, primary_key) ==
    IF \E i \in 1..Len(collections) :
           ~NameHas(collections[i].meta_indexed, primary_key)
    THEN [ok |-> FALSE, err |-> "KeyError", result |-> <<>>]
    ELSE [ok |-> TRUE, err |-> "",
          result |-> LastSeen(IndexKeys(collections, primary_key))]

\* get_key_value_superset: the keys of the dict the loop filled, or the
\* KeyError of the loop
GetKeyValueSuperset(collections, primary_key) ==
    LET filled == SupersetUpdate(OdEmpty, collections, primary_key)
    IN IF filled.ok
       THEN [ok |-> TRUE, err |-> "",
             result |-> OdKeys(filled.primary_key_value_dict)]
       ELSE [ok |-> FALSE, err |-> filled.err, result |-> <<>>]

----------------------------------------------------------------------------
(* group_diff *)

\* the loop over interesting_keys, were a new value to get len(cache) + 1
RECURSIVE GroupKeysFromOne(_, _, _, _)
GroupKeysFromOne(st, interesting_keys, meta, from) ==
    IF from > Len(interesting_keys) THEN st
    ELSE LET key == interesting_keys[from]
             cache == NameGet(st.single_key_value_cache, key, OdEmpty)
             meta_key_value == GetItem(meta, key)
             cache1 == IF ~OdHas(cache, meta_key_value)
                       THEN OdSet(cache, meta_key_value, Len(cache) + 1)
                       ELSE cache
         IN GroupKeysFromOne(
                [single_key_value_cache |->
                     NameSet(st.single_key_value_cache, key, cache1),
                 groups |-> NameSet(st.groups, key,
                                  OdGet(cache1, meta_key_value, -1))],
                interesting_keys, meta, from + 1)

\* the loop over interesting_keys for one meta: st holds the caches and the
\* groups built so far
RECURSIVE GroupKeys(_, _, _, _)
GroupKeys(st, interesting_keys, meta, from) ==
    IF from > Len(interesting_keys) THEN st
    ELSE LET key == interesting_keys[from]
             cache == NameGet(st.single_key_value_cache, key, OdEmpty)
             meta_key_value == GetItem(meta, key)
             cache1 == IF ~OdHas(cache, meta_key_value)
                       THEN OdSet(cache, meta_key_value, Len(cache))
                       ELSE cache
         IN GroupKeys(
                [single_key_value_cache |->
                     NameSet(st.single_key_value_cache, key, cache1),
                 groups |-> NameSet(st.groups, key,
                                  OdGet(cache1, meta_key_value, -1))],
                interesting_keys, meta, from + 1)

\* the sum of the ids of groups
RECURSIVE SumOfIds(_)
SumOfIds(groups) ==
    IF groups = <<>> THEN 0 ELSE groups[1][2] + SumOfIds(Tail(groups))

\* one pass of the loop over meta_files, were the combined id the sum of the
\* per-attribute ids
GroupDiffStepSum(st, interesting_keys, meta) ==
    IF ~st.ok THEN st
    ELSE IF meta = None /\ interesting_keys # <<>>
    THEN [st EXCEPT !.ok = FALSE, !.err = "TypeError", !.result = <<>>]
    ELSE LET ks == GroupKeys([single_key_value_cache |->
                                  st.single_key_value_cache,
                              groups |-> OdEmpty],
                             interesting_keys, meta, 1)
         IN [st EXCEPT
                !.single_key_value_cache = ks.single_key_value_cache,
                !.result = Append(st.result,
                                  [meta |-> meta,
                                   groups |-> ks.groups,
                                   group |-> SumOfIds(ks.groups)])]

\* one pass of the loop over meta_files; None[key] raises TypeError, where
\* there is a key to look up
GroupDiffStep(st, interesting_keys, meta) ==
    IF ~st.ok THEN st
    ELSE IF meta = None /\ interesting_keys # <<>>
    THEN [st EXCEPT !.ok = FALSE, !.err = "TypeError", !.result = <<>>]
    ELSE LET ks == GroupKeys([single_key_value_cache |->
                                  st.single_key_value_cache,
                              groups |-> OdEmpty],
                             interesting_keys, meta, 1)
             groups_tuple == ks.groups
             tcache == IF ~NameHas(st.tuple_key_value_cache, groups_tuple)
                       THEN NameSet(st.tuple_key_value_cache, groups_tuple,
                                  Len(st.tuple_key_value_cache))
                       ELSE st.tuple_key_value_cache
         IN [st EXCEPT
                !.single_key_value_cache = ks.single_key_value_cache,
                !.tuple_key_value_cache = tcache,
                !.result = Append(st.result,
                                  [meta |-> meta,
                                   groups |-> ks.groups,
                                   group |->
                                       NameGet(tcache, groups_tuple, -1)])]

RECURSIVE GroupDiffLoop(_, _, _)
GroupDiffLoop(st, interesting_keys, metas) ==
    IF metas = <<>> THEN st
    ELSE GroupDiffLoop(GroupDiffStep(st, interesting_keys, metas[1]),
                       interesting_keys, Tail(metas))

\* group_diff, were it a two-way diff of each meta against the first one
GroupDiffAgainstFirst(interesting_keys, metas) ==
    IF interesting_keys # <<>> /\ \E i \in 1..Len(metas) : metas[i] = None
    THEN [ok |-> FALSE, err |-> "TypeError", result |-> <<>>]
    ELSE [ok |-> TRUE, err |-> "",
          result |->
              [i \in 1..Len(metas) |->
                  LET Same(key) == GetItem(metas[i], key) = GetItem(metas[1], key)
                  IN [meta |-> metas[i],
                      groups |-> [k \in 1..Len(interesting_keys) |->
                                     <<interesting_keys[k],
                                       IF Same(interesting_keys[k])
                                       THEN 0 ELSE 1>>],
                      group |-> IF \A k \in 1..Len(interesting_keys) :
                                       Same(interesting_keys[k])
                                THEN 0 ELSE 1]]]

\* group_diff: [ok, err, result], result the list of (meta, groups, group)
GroupDiff(interesting_keys, metas) ==
    LET st == GroupDiffLoop(
                  [ok |-> TRUE, err |-> "",
                   single_key_value_cache |->
                       [i \in 1..Len(interesting_keys) |->
                           <<interesting_keys[i], OdEmpty>>],
                   tuple_key_value_cache |-> OdEmpty,
                   result |-> <<>>],
                  interesting_keys, metas)
    IN [ok |-> st.ok, err |-> st.err, result |-> st.result]

----------------------------------------------------------------------------
(* The records the model draws its inputs from *)

Paths == {"d/p1", "d/p2", "e/p3"}

\* os.path.split(file_path)[1]
BaseName(file_path) ==
    CASE file_path = "d/p1" -> "p1"
      [] file_path = "d/p2" -> "p2"
      [] file_path = "e/p3" -> "p3"

\* "{:o}".format(st_mode & 0o777), for the modes the model uses
OctalText(n) ==
    CASE n = 420 -> "644"
      [] n = 493 -> "755"
      [] n = 384 -> "600"

\* a FileMeta as FileMeta(file_path) builds it from os.stat and hash_file:
\* str name, path and mode, int uid, gid and size, float times, str hash
StatMeta(file_path, file_stat, hash_value) ==
    [name |-> PyStr(BaseName(file_path)),
     path |-> PyStr(file_path),
     mode |-> PyStr(OctalText(file_stat.st_mode % 512)),
     uid |-> PyInt(file_stat.st_uid),
     gid |-> PyInt(file_stat.st_gid),
     size |-> PyInt(file_stat.st_size),
     atime |-> PyFloat(file_stat.st_atime),
     mtime |-> PyFloat(file_stat.st_mtime),
     ctime |-> PyFloat(file_stat.st_ctime),
     hash_value |-> PyStr(hash_value)]

\* the os.stat result of a regular file rw-r--r-- of the given size
FileStat(size) ==
    [st_mode |-> 33188, st_uid |-> 1000, st_gid |-> 100, st_size |-> size,
     st_atime |-> 3, st_mtime |-> 21, st_ctime |-> 4]

\* the dict json.load gives for one entry of an archive, from its members
\* in file order: a name met again takes the later value
DictOf(items) ==
    [k \in Range(OdKeys(items)) |->
        items[Max({i \in 1..Len(items) : items[i][1] = k})][2]]

Without(dict, key) == [k \in DOMAIN dict \ {key} |-> dict[k]]

\* the archived files of a diff run, by path, hash and size: d/p1 with two
\* contents of different size, d/p2, e/p3
DiffFiles ==
    {<<"d/p1", "x", 1>>, <<"d/p1", "y", 2>>, <<"d/p2", "x", 1>>,
     <<"e/p3", "x", 1>>}

WellFormedEntries ==
    {DictOf(ToDict(StatMeta(f[1], FileStat(f[3]), f[2]))) : f \in DiffFiles}

\* entries lacking a required key: one of them, and all of them
MalformedEntries ==
    LET d == DictOf(ToDict(StatMeta("d/p1", FileStat(1), "x")))
    IN {Without(d, "size"), <<>>}

ArchiveEntries == WellFormedEntries \cup MalformedEntries

----------------------------------------------------------------------------
(* The parts of the state a specification does not use stay as they start *)

GroupIdle ==
    /\ meta_files = <<>>
    /\ result = [ok |-> TRUE, err |-> "", result |-> <<>>]
    /\ permutation = <<>>
    /\ permuted_result = [ok |-> TRUE, err |-> "", result |-> <<>>]

AuditIdle ==
    /\ args = None
    /\ meta_file_collection = None
    /\ json_file = None
    /\ csv_file = None
    /\ reloaded = None

NoFault == [kind |-> "none", node |-> <<>>]

WalkIdle ==
    /\ fault = NoFault
    /\ path_pos = 0
    /\ walk_dirs = <<>>
    /\ walk_root = <<>>
    /\ walk_files = <<>>
    /\ cur_file_path = <<>>
    /\ ignore_path = <<>>
    /\ iterations = 0
    /\ swallowed = {}

----------------------------------------------------------------------------
(* cmd_diff *)

PATH_KEY == "path"
INTERESTING_KEYS == <<"hash", "size">>

\* args.diff, the archive paths
ArchivePath(i) == <<"A", "B", "C", "D", "E", "F">>[i]

NoDiff == [ok |-> TRUE, err |-> "", result |-> <<>>]

DiffInit ==
    /\ pc = "args"
    /\ err = ""
    /\ raw_meta_data = <<>>
    /\ collection = None
    /\ file_meta_collections = <<>>
    /\ primary_key_values = <<>>
    /\ key_pos = 0
    /\ meta_list = <<>>
    /\ diff = NoDiff
    /\ stdout = <<>>

DiffIdle ==
    /\ err = ""
    /\ raw_meta_data = <<>>
    /\ collection = None
    /\ file_meta_collections = <<>>
    /\ primary_key_values = <<>>
    /\ key_pos = 0
    /\ meta_list = <<>>
    /\ diff = NoDiff
    /\ stdout = <<>>

RecordsRead ==
    LET RECURSIVE Sum(_)
        Sum(i) == IF i = 0 THEN 0 ELSE Len(raw_meta_data[i]) + Sum(i - 1)
    IN Sum(Len(raw_meta_data))

\* the loop of from_json_file, were it to skip an entry it cannot build
FromJsonFileStepSkipping(self, raw_meta) ==
    LET made == FileMetaInit(raw_meta)
    IN IF made.ok
       THEN [ok |-> TRUE, err |-> "", self |-> Add(self, made.meta)]
       ELSE [ok |-> TRUE, err |-> "", self |-> self]

\* one pass of the loop of from_json_file: FileMeta(from_dict=raw_meta), add
FromJsonFileStep(self, raw_meta) ==
    LET made == FileMetaInit(raw_meta)
    IN IF made.ok
       THEN [ok |-> TRUE, err |-> "", self |-> Add(self, made.meta)]
       ELSE [ok |-> FALSE, err |-> made.err, self |-> self]

\* the next path of args.diff: FileMetaCollection(PATH_KEY, name=path,
\* from_json_file=path) starts empty and opens the archive
OpenArchive ==
    /\ pc = "args"
    /\ Len(file_meta_collections) < MaxArchives
    /\ collection' = NewCollection(PyStr(PATH_KEY),
                                   ArchivePath(Len(file_meta_collections) + 1),
                                   <<>>)
    /\ raw_meta_data' = Append(raw_meta_data, <<>>)
    /\ pc' = "load"
    /\ UNCHANGED <<err, file_meta_collections, primary_key_values, key_pos,
                   meta_list, diff, stdout>>
    /\ UNCHANGED <<groupVars, auditVars, walkVars>>

\* the archive's next entry is raw_meta
LoadEntry(raw_meta) ==
    /\ pc = "load"
    /\ RecordsRead < MaxRecords
    /\ LET n == Len(raw_meta_data)
           step == FromJsonFileStep(collection, raw_meta)
       IN /\ raw_meta_data' =
                 [raw_meta_data EXCEPT ![n] = Append(@, raw_meta)]
          /\ collection' = step.self
          /\ err' = step.err
          /\ pc' = IF step.ok THEN "load" ELSE "error"
    /\ UNCHANGED <<file_meta_collections, primary_key_values, key_pos,
                   meta_list, diff, stdout>>
    /\ UNCHANGED <<groupVars, auditVars, walkVars>>

\* the archive has no further entry: the collection joins the list
CloseArchive ==
    /\ pc = "load"
    /\ file_meta_collections' = Append(file_meta_collections, collection)
    /\ collection' = None
    /\ pc' = "args"
    /\ UNCHANGED <<err, raw_meta_data, primary_key_values, key_pos,
                   meta_list, diff, stdout>>
    /\ UNCHANGED <<groupVars, auditVars, walkVars>>

HeaderLine ==
    [kind |-> "header",
     columns |-> <<"File @ Archive">> \o INTERESTING_KEYS \o <<"sum">>]

BlankLine == [kind |-> "blank"]

\* args.diff is exhausted: the superset, the blank line and the header; a
\* KeyError of get_key_value_superset ends the run before either is printed
PrintHeader ==
    /\ pc = "args"
    /\ Len(file_meta_collections) >= 1
    /\ LET superset == GetKeyValueSuperset(file_meta_collections, PATH_KEY)
       IN /\ primary_key_values' = superset.result
          /\ err' = superset.err
          /\ stdout' = IF superset.ok
                       THEN stdout \o <<BlankLine, HeaderLine>>
                       ELSE stdout
          /\ key_pos' = IF superset.ok THEN 1 ELSE key_pos
          /\ pc' = IF superset.ok THEN "rows" ELSE "error"
    /\ UNCHANGED <<raw_meta_data, collection, file_meta_collections,
                   meta_list, diff>>
    /\ UNCHANGED <<groupVars, auditVars, walkVars>>

\* the rows of one file_key: one per archive, then a blank line
DiffRows(file_key, d) ==
    [i \in 1..Len(d) |->
        [kind |-> "row",
         file_key |-> file_key,
         archive |-> ArchivePath(i),
         key_groups |-> OdValues(d[i].groups),
         group |-> d[i].group]] \o <<BlankLine>>

\* one pass of the loop over primary_key_values
DiffKey ==
    /\ pc = "rows"
    /\ key_pos <= Len(primary_key_values)
    /\ LET file_key == primary_key_values[key_pos]
           ml == [i \in 1..Len(file_meta_collections) |->
                     GetMeta(file_meta_collections[i], PATH_KEY, file_key)]
           d == GroupDiff(INTERESTING_KEYS, ml)
       IN /\ meta_list' = ml
          /\ diff' = d
          /\ err' = d.err
          /\ stdout' = IF d.ok THEN stdout \o DiffRows(file_key, d.result)
                       ELSE stdout
          /\ pc' = IF d.ok THEN "rows" ELSE "error"
          /\ key_pos' = IF d.ok THEN key_pos + 1 ELSE key_pos
    /\ UNCHANGED <<raw_meta_data, collection, file_meta_collections,
                   primary_key_values>>
    /\ UNCHANGED <<groupVars, auditVars, walkVars>>

\* the loop is over: cmd_diff returns
DiffReturn ==
    /\ pc = "rows"
    /\ key_pos > Len(primary_key_values)
    /\ pc' = "done"
    /\ UNCHANGED <<err, raw_meta_data, collection, file_meta_collections,
                   primary_key_values, key_pos, meta_list, diff, stdout>>
    /\ UNCHANGED <<groupVars, auditVars, walkVars>>

----------------------------------------------------------------------------
(* The diff command: fsa.py --diff A B ... *)

Init == DiffInit /\ GroupIdle /\ AuditIdle /\ WalkIdle

Next ==
    \/ OpenArchive
    \/ \E raw_meta \in ArchiveEntries : LoadEntry(raw_meta)
    \/ CloseArchive
    \/ PrintHeader
    \/ DiffKey
    \/ DiffReturn

Spec == Init /\ [][Next]_vars

----------------------------------------------------------------------------
(* What the claims are stated over *)

\* the paths of the entries of archive i, in reading order
ArchivePaths(i) ==
    [j \in 1..Len(raw_meta_data[i]) |-> raw_meta_data[i][j]["path"]]

\* the paths of the entries of archives 1..n, in reading order
RECURSIVE PathsRead(_)
PathsRead(n) ==
    IF n = 0 THEN <<>> ELSE PathsRead(n - 1) \o ArchivePaths(n)

\* a sequence without its repetitions, each value where it comes first
RECURSIVE FirstSeen(_)
FirstSeen(seq) ==
    IF seq = <<>> THEN <<>>
    ELSE LET n == Len(seq)
             front == FirstSeen(SubSeq(seq, 1, n - 1))
         IN IF seq[n] \in Range(front) THEN front ELSE Append(front, seq[n])

LacksRequiredKey(entry) == \E k \in Range(KEYS) : k \notin DOMAIN entry

\* some entry read so far lacks a required key
MalformedRead ==
    \E i \in 1..Len(raw_meta_data) :
        \E j \in 1..Len(raw_meta_data[i]) :
            LacksRequiredKey(raw_meta_data[i][j])

\* the entries of archive i that add was called for
EntriesAdded(i) ==
    LET entries == raw_meta_data[i]
        n == Len(entries)
    IN IF n > 0 /\ LacksRequiredKey(entries[n])
       THEN SubSeq(entries, 1, n - 1)
       ELSE entries

\* the collection of archive i, loaded or under construction
CollectionOf(i) ==
    IF i <= Len(file_meta_collections) THEN file_meta_collections[i]
    ELSE collection

SameFields(meta, entry) ==
    \A k \in Range(KEYS) : GetItem(meta, k) = entry[k]

\* the positions of seq whose path is value
Holding(seq, value) == {j \in 1..Len(seq) : seq[j]["path"] = value}

----------------------------------------------------------------------------
(* Claims on the diff command *)

\* C1: in diff mode a path missing from one snapshot gives an absent marker
\* in meta_list, and group_diff still returns one result per entry, the
\* absent entry's id differing, for every interesting attribute, from the id
\* of every present Record, the diff of that path ending without an error.
C1_AbsentEntryGrouped ==
    (\E i \in 1..Len(meta_list) : meta_list[i] = None) =>
        /\ diff.ok
        /\ err = ""
        /\ Len(diff.result) = Len(meta_list)
        /\ \A i, j \in 1..Len(meta_list) :
               (meta_list[i] = None /\ meta_list[j] # None) =>
                   \A k \in 1..Len(INTERESTING_KEYS) :
                       diff.result[i].groups[k][2] # diff.result[j].groups[k][2]

\* C5: the superset is the union of the snapshots' paths, each once, in the
\* order the paths are first met reading the snapshots left to right, and
\* computing it leaves the snapshots as the loads built them.
C5_SupersetFirstSeenOrder ==
    key_pos >= 1 =>
        /\ primary_key_values = FirstSeen(PathsRead(Len(raw_meta_data)))
        /\ \A i \in 1..Len(file_meta_collections) :
               /\ Len(file_meta_collections[i].meta_list) =
                      Len(raw_meta_data[i])
               /\ OdKeys(GetMetaIndex(file_meta_collections[i], PATH_KEY)) =
                      FirstSeen(ArchivePaths(i))

\* the superset of A = [p1, p2] and B = [p2, p3] is [p1, p2, p3]
C5_Witness ==
    /\ key_pos >= 1
    /\ Len(raw_meta_data) = 2
    /\ ArchivePaths(1) = <<PyStr("d/p1"), PyStr("d/p2")>>
    /\ ArchivePaths(2) = <<PyStr("d/p2"), PyStr("e/p3")>>
    /\ primary_key_values = <<PyStr("d/p1"), PyStr("d/p2"), PyStr("e/p3")>>

\* C6: after any sequence of adds, meta_list holds every added Record in
\* insertion order, get_meta(key, v) on a declared index key returns the last
\* Record added whose key value is v, and None when no added Record has it.
C6_ListKeptAndLastAddWins ==
    \A i \in 1..Len(raw_meta_data) :
        LET c == CollectionOf(i)
            added == EntriesAdded(i)
        IN /\ Len(c.meta_list) = Len(added)
           /\ \A j \in 1..Len(added) : SameFields(c.meta_list[j], added[j])
           /\ \A v \in {PyStr(p) : p \in Paths \cup {"nowhere"}} :
                  GetMeta(c, PATH_KEY, v) =
                      IF Holding(added, v) = {} THEN None
                      ELSE c.meta_list[Max(Holding(added, v))]

\* a path added twice with different contents, another path in between: the
\* lookup gives the later Record, and a path never added gives None
C6_Witness ==
    \E i \in 1..Len(raw_meta_data) :
        LET c == CollectionOf(i)
        IN /\ Len(c.meta_list) = 3
           /\ c.meta_list[1].path = c.meta_list[3].path
           /\ c.meta_list[1].path # c.meta_list[2].path
           /\ c.meta_list[1] # c.meta_list[3]
           /\ GetMeta(c, PATH_KEY, c.meta_list[1].path) = c.meta_list[3]
           /\ GetMeta(c, PATH_KEY, PyStr("e/p3")) = None

\* C10: once an entry lacking a required key was read, the load has failed
\* and the diff is over with nothing printed: no header line, no row.
C10_NoOutputWhenLoadFails ==
    MalformedRead =>
        /\ pc = "error"
        /\ err \in {"KeyError", "TypeError"}
        /\ stdout = <<>>

\* the malformed entry is the second entry of the second archive
C10_Witness ==
    /\ MalformedRead
    /\ Len(file_meta_collections) = 1
    /\ Len(file_meta_collections[1].meta_list) >= 1
    /\ Len(raw_meta_data) = 2
    /\ Len(raw_meta_data[2]) = 2
    /\ pc = "error"
    /\ stdout = <<>>

----------------------------------------------------------------------------
(* group_diff on its own: every list of Records of one path *)

\* the Records of one path in different snapshots, by (hash, size), and one
\* from an archive that gives the size 1 as the float 1.0
GroupRecords ==
    {StatMeta("d/p1", FileStat(1), "x"), StatMeta("d/p1", FileStat(2), "x"),
     StatMeta("d/p1", FileStat(2), "y"),
     [StatMeta("d/p1", FileStat(1), "x") EXCEPT !.size = PyFloat(2)]}

InputLists ==
    UNION {[1..n -> GroupRecords] : n \in 0..MaxMetaFiles}

PermutationsOf(n) ==
    {p \in [1..n -> 1..n] : \A i, j \in 1..n : p[i] = p[j] => i = j}

Permuted(seq, p) == [i \in 1..Len(seq) |-> seq[p[i]]]

GroupInit ==
    /\ pc = "input"
    /\ DiffIdle
    /\ meta_files \in InputLists
    /\ result = NoDiff
    /\ permutation = <<>>
    /\ permuted_result = NoDiff
    /\ AuditIdle
    /\ WalkIdle

\* group_diff(INTERESTING_KEYS, meta_files)
RunGroupDiff ==
    /\ pc = "input"
    /\ result' = GroupDiff(INTERESTING_KEYS, meta_files)
    /\ pc' = "grouped"
    /\ UNCHANGED <<err, raw_meta_data, collection, file_meta_collections,
                   primary_key_values, key_pos, meta_list, diff, stdout>>
    /\ UNCHANGED <<meta_files, permutation, permuted_result, auditVars,
                   walkVars>>

\* group_diff on the same Records in another order
RunPermuted ==
    /\ pc = "grouped"
    /\ \E p \in PermutationsOf(Len(meta_files)) :
           /\ permutation' = p
           /\ permuted_result' =
                  GroupDiff(INTERESTING_KEYS, Permuted(meta_files, p))
    /\ pc' = "permuted"
    /\ UNCHANGED <<err, raw_meta_data, collection, file_meta_collections,
                   primary_key_values, key_pos, meta_list, diff, stdout>>
    /\ UNCHANGED <<meta_files, result, auditVars, walkVars>>

GroupNext ==
    \/ RunGroupDiff
    \/ RunPermuted

SpecGroup == GroupInit /\ [][GroupNext]_vars

AllPresent(metas) == \A i \in 1..Len(metas) : metas[i] # None

\* the values of attribute key over metas
ValuesOf(metas, key) == [i \in 1..Len(metas) |-> GetItem(metas[i], key)]

\* the place of v in seq
PlaceIn(seq, v) == CHOOSE i \in 1..Len(seq) : seq[i] = v

\* the first-seen-order index of seq[i] among the values of seq
FirstSeenId(seq, i) == PlaceIn(FirstSeen(seq), seq[i]) - 1

\* the same for attribute values, which are equal when Python's == says so
RECURSIVE FirstSeenValues(_)
FirstSeenValues(seq) ==
    IF seq = <<>> THEN <<>>
    ELSE LET n == Len(seq)
             front == FirstSeenValues(SubSeq(seq, 1, n - 1))
         IN IF \E v \in Range(front) : PyEq(v, seq[n]) THEN front
            ELSE Append(front, seq[n])

ValueId(seq, i) ==
    (CHOOSE j \in 1..Len(FirstSeenValues(seq)) :
         PyEq(FirstSeenValues(seq)[j], seq[i])) - 1

\* the id group_diff gave record i for the k-th interesting key
KeyId(res, i, k) == res.result[i].groups[k][2]

\* C2: over present Records the per-attribute ids are first-seen-order
\* indexes, the k-th distinct value of an attribute getting k-1, and two
\* Records share an attribute's id if and only if their values are equal.
C2_PerAttributeIdsFirstSeen ==
    (pc = "grouped" /\ AllPresent(meta_files)) =>
        /\ result.ok
        /\ Len(result.result) = Len(meta_files)
        /\ \A k \in 1..Len(INTERESTING_KEYS) :
               LET values == ValuesOf(meta_files, INTERESTING_KEYS[k])
               IN \A i \in 1..Len(meta_files) :
                      /\ result.result[i].groups[k][1] = INTERESTING_KEYS[k]
                      /\ KeyId(result, i, k) = ValueId(values, i)
                      /\ \A j \in 1..Len(meta_files) :
                             KeyId(result, i, k) = KeyId(result, j, k)
                                 <=> PyEq(values[i], values[j])

\* hashes [x, y, x] get the ids [0, 1, 0], and so do the sizes [1, 2, 1.0]
C2_Witness ==
    /\ pc = "grouped"
    /\ Len(meta_files) = 3
    /\ AllPresent(meta_files)
    /\ ValuesOf(meta_files, "hash") = <<PyStr("x"), PyStr("y"), PyStr("x")>>
    /\ ValuesOf(meta_files, "size") = <<PyInt(1), PyInt(2), PyFloat(2)>>
    /\ [i \in 1..3 |-> KeyId(result, i, 1)] = <<0, 1, 0>>
    /\ [i \in 1..3 |-> KeyId(result, i, 2)] = <<0, 1, 0>>

\* C3: over present Records the combined id is the first-seen-order index of
\* the tuple of per-attribute ids, so two Records share it if and only if
\* they are equal on every interesting attribute.
C3_CombinedIdFirstSeen ==
    (pc = "grouped" /\ AllPresent(meta_files)) =>
        /\ result.ok
        /\ Len(result.result) = Len(meta_files)
        /\ LET tuples == [i \in 1..Len(meta_files) |->
                             [k \in 1..Len(INTERESTING_KEYS) |->
                                 ValueId(ValuesOf(meta_files,
                                                  INTERESTING_KEYS[k]), i)]]
           IN \A i \in 1..Len(meta_files) :
                  /\ result.result[i].group = FirstSeenId(tuples, i)
                  /\ \A j \in 1..Len(meta_files) :
                         result.result[i].group = result.result[j].group
                             <=> \A k \in 1..Len(INTERESTING_KEYS) :
                                    PyEq(GetItem(meta_files[i],
                                                 INTERESTING_KEYS[k]),
                                         GetItem(meta_files[j],
                                                 INTERESTING_KEYS[k]))

\* (x,1) (y,2) (x,2) (y,2): tuples (0,0) (1,1) (0,1) (1,1), combined 0 1 2 1
C3_Witness ==
    /\ pc = "grouped"
    /\ Len(meta_files) = 4
    /\ AllPresent(meta_files)
    /\ ValuesOf(meta_files, "hash") =
           <<PyStr("x"), PyStr("y"), PyStr("x"), PyStr("y")>>
    /\ ValuesOf(meta_files, "size") =
           <<PyInt(1), PyInt(2), PyInt(2), PyInt(2)>>
    /\ [i \in 1..4 |-> result.result[i].group] = <<0, 1, 2, 1>>

\* C4: group_diff on a permutation of a list of Records co-groups the same
\* pairs of Records as on the list, per attribute and for the combined id.
C4_CoGroupingOrderFree ==
    (pc = "permuted" /\ AllPresent(meta_files)) =>
        /\ result.ok
        /\ permuted_result.ok
        /\ Len(permuted_result.result) = Len(meta_files)
        /\ \A a, b \in 1..Len(meta_files) :
               LET i == permutation[a]
                   j == permutation[b]
               IN /\ permuted_result.result[a].meta = meta_files[i]
                  /\ (permuted_result.result[a].group
                          = permuted_result.result[b].group)
                      <=> (result.result[i].group = result.result[j].group)
                  /\ \A k \in 1..Len(INTERESTING_KEYS) :
                         (KeyId(permuted_result, a, k)
                             = KeyId(permuted_result, b, k))
                         <=> (KeyId(result, i, k) = KeyId(result, j, k))

\* a reordering that changes the integer labels of a Record
C4_Witness ==
    /\ pc = "permuted"
    /\ AllPresent(meta_files)
    /\ Len(meta_files) >= 3
    /\ \E a \in 1..Len(meta_files) :
           /\ permutation[a] # a
           /\ permuted_result.result[a].group
                  # result.result[permutation[a]].group
           /\ KeyId(permuted_result, a, 1) # KeyId(result, permutation[a], 1)

----------------------------------------------------------------------------
(* Text: what format() and json make of a value, and read back *)

\* the decimal digits of n
RECURSIVE Digits(_)
Digits(n) == IF n < 10 THEN <<n>> ELSE Append(Digits(n \div 10), n % 10)

\* the number a sequence of decimal digits writes
RECURSIVE NumberFrom(_)
NumberFrom(digits) ==
    IF digits = <<>> THEN 0
    ELSE 10 * NumberFrom(SubSeq(digits, 1, Len(digits) - 1))
         + digits[Len(digits)]

\* a piece of text: the characters of a str, or the digits of a number
\* before and after its point (no point: frac is empty)
Chars(s) == [chars |-> s, int |-> <<>>, frac |-> <<>>]

\* format(v): a str as it is, an int in decimal, a float by its repr, which
\* for a multiple of 0.5 is the integer part, a point and 0 or 5
PyFormat(v) ==
    CASE v.t = "str" -> Chars(v.s)
      [] v.t = "int" -> [chars |-> "", int |-> Digits(v.n), frac |-> <<>>]
      [] v.t = "float" -> [chars |-> "", int |-> Digits(v.n \div 2),
                           frac |-> IF v.n % 2 = 0 THEN <<0>> ELSE <<5>>]

\* json.dumps of a value: a quoted string, or a number
JsonDumpsValue(v) ==
    [kind |-> IF v.t = "str" THEN "string" ELSE "number", text |-> PyFormat(v)]

\* json.loads of a literal, were a number with a fraction read as an int
JsonLoadsValueTruncating(literal) ==
    IF literal.kind = "string" THEN PyStr(literal.text.chars)
    ELSE PyInt(NumberFrom(literal.text.int))

\* the digits of a fraction that count: those up to its last non-zero one
SignificantDigits(frac) ==
    SubSeq(frac, 1, Max({0} \cup {i \in 1..Len(frac) : frac[i] # 0}))

\* json.loads of a literal: a number without a point is an int, one with a
\* point a float, whatever zeros end its fraction (1.50 is 1.5, 2.00 is
\* 2.0); the floats here are the multiples of 0.5
JsonLoadsValue(literal) ==
    IF literal.kind = "string" THEN PyStr(literal.text.chars)
    ELSE IF literal.text.frac = <<>> THEN PyInt(NumberFrom(literal.text.int))
    ELSE CASE SignificantDigits(literal.text.frac) = <<>> ->
                  PyFloat(2 * NumberFrom(literal.text.int))
           [] SignificantDigits(literal.text.frac) = <<5>> ->
                  PyFloat(2 * NumberFrom(literal.text.int) + 1)

\* FileMetaCollection.to_json: the array of the Records' objects, each the
\* members of to_dict in order
ToJson(self) ==
    [j \in 1..Len(self.meta_list) |->
        LET items == ToDict(self.meta_list[j])
        IN [k \in 1..Len(items) |->
               <<items[k][1], JsonDumpsValue(items[k][2])>>]]

\* json.load of such a file: the list of dicts
JsonLoad(file) ==
    [j \in 1..Len(file) |->
        DictOf([k \in 1..Len(file[j]) |->
                   <<file[j][k][1], JsonLoadsValue(file[j][k][2])>>])]

RECURSIVE FromJsonFileLoop(_, _)
FromJsonFileLoop(st, raw_meta_data_left) ==
    IF raw_meta_data_left = <<>> \/ ~st.ok THEN st
    ELSE FromJsonFileLoop(FromJsonFileStep(st.self, raw_meta_data_left[1]),
                          Tail(raw_meta_data_left))

\* FileMetaCollection.from_json_file
FromJsonFile(self, file) ==
    FromJsonFileLoop([ok |-> TRUE, err |-> "", self |-> self], JsonLoad(file))

----------------------------------------------------------------------------
(* FileMeta.to_string *)

\* a format string is the sequence of its replacement fields and the text
\* between them
Field(name) == [kind |-> "field", s |-> name]
Literal(text) == [kind |-> "text", s |-> text]

\* a replacement field that names no keyword but a position: {} has the
\* index "", {0} the index "0"
Positional(index) == [kind |-> "positional", s |-> index]

\* the keyword arguments to_string hands to str.format
FormatKeywords(meta) ==
    << <<"name", meta.name>>, <<"path", meta.path>>, <<"mode", meta.mode>>,
       <<"uid", meta.uid>>, <<"gid", meta.gid>>, <<"size", meta.size>>,
       <<"time", meta.atime>>, <<"mtime", meta.mtime>>,
       <<"ctime", meta.ctime>>, <<"hash_value", meta.hash_value>> >>

\* the default of to_string's fmt
DefaultFormat ==
    <<Field("path"), Literal(", "), Field("mode"), Literal(", "),
      Field("uid"), Literal(", "), Field("gid"), Literal(", "),
      Field("size"), Literal(", "), Field("hash_value")>>

\* FileMeta.to_string: str.format takes the fields left to right and raises
\* at the first it cannot fill, KeyError for a name that is no keyword
\* argument, IndexError for a position, as no positional argument is passed
ToString(meta, fmt) ==
    LET keywords == FormatKeywords(meta)
        unfilled == {k \in 1..Len(fmt) :
                        \/ fmt[k].kind = "positional"
                        \/ fmt[k].kind = "field"
                               /\ ~NameHas(keywords, fmt[k].s)}
        Min(S) == CHOOSE x \in S : \A y \in S : x <= y
    IN IF unfilled # {}
       THEN [ok |-> FALSE,
             err |-> IF fmt[Min(unfilled)].kind = "positional"
                     THEN "IndexError" ELSE "KeyError",
             text |-> <<>>]
       ELSE [ok |-> TRUE, err |-> "",
             text |-> [k \in 1..Len(fmt) |->
                          IF fmt[k].kind = "field"
                          THEN PyFormat(NameGet(keywords, fmt[k].s, None))
                          ELSE Chars(fmt[k].s)]]

----------------------------------------------------------------------------
(* FileMetaCollection.to_csv *)

\* csv.writer(csv_file).writerow(row): the cells of iterating row, written
\* to the file as str, which a file opened in binary mode refuses
CsvWriterow(csv, row) ==
    IF ~csv.ok THEN csv
    ELSE IF csv.mode = "wb"
    THEN [csv EXCEPT !.ok = FALSE, !.err = "TypeError"]
    ELSE [csv EXCEPT !.rows = Append(csv.rows, row)]

RECURSIVE CsvWriterows(_, _)
CsvWriterows(csv, rows) ==
    IF rows = <<>> THEN csv
    ELSE CsvWriterows(CsvWriterow(csv, rows[1]), Tail(rows))

\* to_csv: the file is opened "wb"; the header is KEYS; each further row is
\* x.to_dict(), and iterating an OrderedDict gives its keys
ToCsv(self) ==
    LET opened == [ok |-> TRUE, err |-> "", mode |-> "wb", rows |-> <<>>]
        header == [k \in 1..Len(KEYS) |-> Chars(KEYS[k])]
        dicts == [j \in 1..Len(self.meta_list) |->
                     ToDict(self.meta_list[j])]
    IN CsvWriterows(CsvWriterow(opened, header),
                    [j \in 1..Len(dicts) |->
                        [k \in 1..Len(dicts[j]) |->
                            Chars(OdKeys(dicts[j])[k])]])

----------------------------------------------------------------------------
(* cmd_walk: the output of an audit, and the reload of its JSON file *)

\* the files an audit may come by, as FileMeta(file_path) reads them: three
\* files of three sizes, so of three contents and three digests
AuditFiles ==
    {StatMeta("d/p1",
              [st_mode |-> 33188, st_uid |-> 0, st_gid |-> 0, st_size |-> 0,
               st_atime |-> 3, st_mtime |-> 21, st_ctime |-> 4], "x"),
     StatMeta("d/p2",
              [st_mode |-> 33261, st_uid |-> 1000, st_gid |-> 100,
               st_size |-> 1024, st_atime |-> 2001, st_mtime |-> 40,
               st_ctime |-> 7], "y"),
     StatMeta("e/p3",
              [st_mode |-> 33152, st_uid |-> 1000, st_gid |-> 0,
               st_size |-> 7, st_atime |-> 0, st_mtime |-> 1,
               st_ctime |-> 2], "z")}

\* the names a --string template may hold in braces: the ten documented
\* ones, the two keyword names of to_string that are none of them, and one
\* that is neither
FormatFields == Range(KEYS) \cup {"time", "hash_value", "foo"}

\* --string: one field, the example of the usage text, to_string's default,
\* a field without a name before and after a named one; no --string is the
\* empty template, falsy like None
Formats ==
    {<<Field(f)>> : f \in FormatFields}
    \cup {<<Field("path"), Literal(", "), Field("hash")>>, DefaultFormat,
          <<Positional(""), Literal(" "), Field("foo")>>,
          <<Field("path"), Literal(" "), Positional("")>>}

AuditInit ==
    /\ pc = "walk"
    /\ DiffIdle
    /\ GroupIdle
    /\ WalkIdle
    /\ args \in [string : Formats \cup {<<>>}, csv : BOOLEAN, json : BOOLEAN]
    /\ meta_file_collection =
           IF args.csv \/ args.json
           THEN NewCollection(PyList(<<"path">>), None, <<>>)
           ELSE None
    /\ json_file = None
    /\ csv_file = None
    /\ reloaded = None

\* the body of the loop over walk_path: the line printed, the Record added
WalkYield(file_meta) ==
    /\ pc = "walk"
    /\ Len(stdout) < MaxFiles
    /\ LET line == IF args.string # <<>>
                   THEN ToString(file_meta, args.string)
                   ELSE [ok |-> TRUE, err |-> "",
                         text |-> <<PyFormat(file_meta.path)>>]
       IN /\ err' = line.err
          /\ pc' = IF line.ok THEN "walk" ELSE "error"
          /\ stdout' = IF line.ok THEN Append(stdout, line.text) ELSE stdout
          /\ meta_file_collection' =
                 IF line.ok /\ meta_file_collection # None
                 THEN Add(meta_file_collection, file_meta)
                 ELSE meta_file_collection
    /\ UNCHANGED <<raw_meta_data, collection, file_meta_collections,
                   primary_key_values, key_pos, meta_list, diff>>
    /\ UNCHANGED <<groupVars, walkVars, args, json_file, csv_file, reloaded>>

\* the loop is over: the collection is written, to_csv before to_json
WalkEnd ==
    /\ pc = "walk"
    /\ LET csv == ToCsv(meta_file_collection)
       IN IF meta_file_collection # None /\ args.csv
          THEN /\ csv_file' = [rows |-> csv.rows]
               /\ err' = csv.err
               /\ pc' = IF csv.ok THEN "done" ELSE "error"
               /\ UNCHANGED json_file
          ELSE IF meta_file_collection # None /\ args.json
          THEN /\ json_file' = [array |-> ToJson(meta_file_collection)]
               /\ pc' = "done"
               /\ UNCHANGED <<err, csv_file>>
          ELSE /\ pc' = "done"
               /\ UNCHANGED <<err, csv_file, json_file>>
    /\ UNCHANGED <<raw_meta_data, collection, file_meta_collections,
                   primary_key_values, key_pos, meta_list, diff, stdout>>
    /\ UNCHANGED <<groupVars, walkVars, args, meta_file_collection, reloaded>>

\* FileMetaCollection(PATH_KEY, name=path, from_json_file=path) on the file
\* the audit wrote
Reload ==
    /\ pc = "done"
    /\ json_file # None
    /\ reloaded' = FromJsonFile(NewCollection(PyStr(PATH_KEY),
                                              ArchivePath(1), <<>>),
                                json_file.array)
    /\ pc' = "reloaded"
    /\ UNCHANGED <<err, raw_meta_data, collection, file_meta_collections,
                   primary_key_values, key_pos, meta_list, diff, stdout>>
    /\ UNCHANGED <<groupVars, walkVars, args, meta_file_collection, json_file,
                   csv_file>>

AuditNext ==
    \/ \E file_meta \in AuditFiles : WalkYield(file_meta)
    \/ WalkEnd
    \/ Reload

SpecAudit == AuditInit /\ [][AuditNext]_vars

----------------------------------------------------------------------------
(* Claims on the audit's output and its reload *)

\* C7: a snapshot written by to_json and loaded by from_json_file into an
\* empty collection comes back with as many Records in the same order, all
\* ten fields equal, and get_meta("path", X) on it gives a field-equal
\* Record for every original path X.
C7_JsonRoundTrip ==
    pc = "reloaded" =>
        LET original == meta_file_collection
            copy == reloaded.self
        IN /\ reloaded.ok
           /\ Len(copy.meta_list) = Len(original.meta_list)
           /\ \A j \in 1..Len(original.meta_list) :
                  /\ \A k \in Range(KEYS) :
                         GetItem(copy.meta_list[j], k)
                             = GetItem(original.meta_list[j], k)
                  /\ LET X == original.meta_list[j].path
                     IN /\ GetMeta(copy, PATH_KEY, X) # None
                        /\ \A k \in Range(KEYS) :
                               GetItem(GetMeta(copy, PATH_KEY, X), k)
                               = GetItem(GetMeta(original, PATH_KEY, X), k)

\* three Records, sizes 0 and 1024, times 1.5, 2.0 and 1000.5 among them, one
\* path twice, written and read back
C7_Witness ==
    /\ pc = "reloaded"
    /\ Len(meta_file_collection.meta_list) = 3
    /\ [j \in 1..3 |-> meta_file_collection.meta_list[j].path] =
           <<PyStr("d/p1"), PyStr("d/p2"), PyStr("d/p1")>>
    /\ Len(json_file.array) = 3
    /\ Len(reloaded.self.meta_list) = 3

\* C8: a template of documented placeholders only is accepted, each of the
\* ten replaced by the Record's field of that name; str.format's KeyError or
\* IndexError is raised only for a template holding a placeholder outside
\* the ten.
C8_DocumentedPlaceholdersAccepted ==
    /\ (pc = "error" /\ err \in {"KeyError", "IndexError"}) =>
           \E k \in 1..Len(args.string) :
               /\ args.string[k].kind \in {"field", "positional"}
               /\ args.string[k].s \notin Range(KEYS)
    /\ (args # None /\ args.string # <<>> /\ meta_file_collection # None) =>
           \A j \in 1..Len(stdout) :
               \A k \in 1..Len(args.string) :
                   (args.string[k].kind = "field"
                    /\ args.string[k].s \in Range(KEYS)) =>
                       stdout[j][k] =
                           PyFormat(GetItem(meta_file_collection.meta_list[j],
                                            args.string[k].s))

\* C9: the CSV export is a header row of the ten keys, then one row per
\* Record in meta_list order holding the Record's ten field values in the
\* order of the header.
C9_CsvHeaderAndRows ==
    csv_file # None =>
        /\ err = ""
        /\ csv_file.rows =
               <<[k \in 1..Len(KEYS) |-> Chars(KEYS[k])]>> \o
               [j \in 1..Len(meta_file_collection.meta_list) |->
                   [k \in 1..Len(KEYS) |->
                       PyFormat(GetItem(meta_file_collection.meta_list[j],
                                        KEYS[k]))]]

----------------------------------------------------------------------------
(* posixpath and fnmatch, on paths as character sequences *)

\* p.rfind("/") + 1: the position of the last slash, 0 without one
LastSlash(p) == Max({0} \cup {i \in 1..Len(p) : p[i] = "/"})

\* head.rstrip("/")
RStripSlashes(p) ==
    SubSeq(p, 1, Max({0} \cup {i \in 1..Len(p) : p[i] # "/"}))

\* os.path.split(p), <<head, tail>>: tail is what follows the last slash, head
\* what precedes it, with its trailing slashes stripped unless it is slashes
\* only; split("/") is <<"/", "">>
PathSplit(p) ==
    LET i == LastSlash(p)
        head == SubSeq(p, 1, i)
        tail == SubSeq(p, i + 1, Len(p))
    IN <<IF head # <<>> /\ (\E j \in 1..Len(head) : head[j] # "/")
         THEN RStripSlashes(head)
         ELSE head,
         tail>>

\* os.path.join(a, b)
PathJoin(a, b) ==
    IF b # <<>> /\ b[1] = "/" THEN b
    ELSE IF a = <<>> \/ a[Len(a)] = "/" THEN a \o b
    ELSE a \o <<"/">> \o b

\* fnmatch(name, pat) for patterns of literal characters, * and ?: * stands
\* for any run of characters, the empty one too, ? for one character
RECURSIVE FnMatch(_, _)
FnMatch(name, pat) ==
    IF pat = <<>> THEN name = <<>>
    ELSE IF Head(pat) = "*"
    THEN FnMatch(name, Tail(pat))
         \/ (name # <<>> /\ FnMatch(Tail(name), pat))
    ELSE /\ name # <<>>
         /\ Head(pat) = "?" \/ Head(pat) = Head(name)
         /\ FnMatch(Tail(name), Tail(pat))

\* the names between the slashes of a path, as written
RECURSIVE Components(_)
Components(p) ==
    IF p = <<>> THEN <<>>
    ELSE LET slashes == {i \in 1..Len(p) : p[i] = "/"}
             i == IF slashes = {} THEN Len(p) + 1
                  ELSE CHOOSE x \in slashes : \A y \in slashes : x <= y
             first == SubSeq(p, 1, i - 1)
         IN (IF first = <<>> THEN <<>> ELSE <<first>>)
            \o Components(SubSeq(p, i + 1, Len(p)))

----------------------------------------------------------------------------
(* The file system of the walk *)

\* d holds a.txt, a.log, .hidden and the directories s, with b.txt, and
\* .git, with c.txt; the working directory is /, so that d and /d name the
\* same directory
NameD == <<"d">>
NameS == <<"s">>
NameGit == <<".", "g", "i", "t">>
NameATxt == <<"a", ".", "t", "x", "t">>
NameALog == <<"a", ".", "l", "o", "g">>
NameHidden == <<".", "h", "i", "d", "d", "e", "n">>
NameBTxt == <<"b", ".", "t", "x", "t">>
NameCTxt == <<"c", ".", "t", "x", "t">>

\* a node is the sequence of the names leading to it from /, which is <<>>
Directories == {<<>>, <<NameD>>, <<NameD, NameS>>, <<NameD, NameGit>>}

\* the names a directory holds; the order in which os.scandir gives them is
\* the file system's own
Listing(node) ==
    CASE node = <<>> -> {NameD}
      [] node = <<NameD>> -> {NameATxt, NameS, NameALog, NameHidden, NameGit}
      [] node = <<NameD, NameS>> -> {NameBTxt}
      [] node = <<NameD, NameGit>> -> {NameCTxt}

RegularFiles ==
    UNION {{Append(dir, name) : name \in Listing(dir)} : dir \in Directories}
    \ Directories

\* the orders os.scandir may give the names in
Orderings(names) ==
    {order \in [1..Cardinality(names) -> names] :
         \A i, j \in 1..Cardinality(names) : order[i] = order[j] => i = j}

\* what may be wrong with it: nothing, one directory or file below / without
\* any permission bit, or one file that was deleted after its directory was
\* listed
Faults ==
    {NoFault}
    \cup {[kind |-> "unreadable", node |-> n] :
              n \in (Directories \ {<<>>}) \cup RegularFiles}
    \cup {[kind |-> "deleted", node |-> n] : n \in RegularFiles}

Unreadable(fs, node) == fs.kind = "unreadable" /\ fs.node = node

\* the kernel's walk along the names of a path, from node: each step needs a
\* directory that may be searched; . stays, .. goes up, a name must be there
RECURSIVE ResolveFrom(_, _, _)
ResolveFrom(fs, node, names) ==
    IF names = <<>> THEN [ok |-> TRUE, err |-> "", node |-> node]
    ELSE IF node \notin Directories
    THEN [ok |-> FALSE, err |-> "NotADirectoryError", node |-> node]
    ELSE IF Unreadable(fs, node)
    THEN [ok |-> FALSE, err |-> "PermissionError", node |-> node]
    ELSE IF Head(names) = <<".">>
    THEN ResolveFrom(fs, node, Tail(names))
    ELSE IF Head(names) = <<".", ".">>
    THEN ResolveFrom(fs, SubSeq(node, 1, Len(node) - 1), Tail(names))
    ELSE IF \/ Head(names) \notin Listing(node)
            \/ (fs.kind = "deleted" /\ fs.node = Append(node, Head(names)))
    THEN [ok |-> FALSE, err |-> "FileNotFoundError", node |-> node]
    ELSE ResolveFrom(fs, Append(node, Head(names)), Tail(names))

\* os.stat(path): the empty path names nothing, and a path that ends in a
\* slash must lead to a directory
OsStat(fs, path) ==
    LET found == ResolveFrom(fs, <<>>, Components(path))
    IN IF path = <<>>
       THEN [ok |-> FALSE, err |-> "FileNotFoundError", node |-> <<>>]
       ELSE IF found.ok /\ path[Len(path)] = "/"
               /\ found.node \notin Directories
       THEN [ok |-> FALSE, err |-> "NotADirectoryError", node |-> found.node]
       ELSE found

\* os.path.isdir(path): False when os.stat fails
IsDir(fs, path) == OsStat(fs, path).ok /\ OsStat(fs, path).node \in Directories

\* open(path, "rb") of hash_file: the file must be readable and no directory
OsOpen(fs, path) ==
    LET found == OsStat(fs, path)
    IN IF ~found.ok THEN [ok |-> FALSE, err |-> found.err]
       ELSE IF Unreadable(fs, found.node)
       THEN [ok |-> FALSE, err |-> "PermissionError"]
       ELSE IF found.node \in Directories
       THEN [ok |-> FALSE, err |-> "IsADirectoryError"]
       ELSE [ok |-> TRUE, err |-> ""]

\* os.scandir(path) of os.walk: a directory that is readable
OsScandir(fs, path) ==
    LET found == OsStat(fs, path)
    IN IF ~found.ok THEN [ok |-> FALSE, err |-> found.err, names |-> {}]
       ELSE IF found.node \notin Directories
       THEN [ok |-> FALSE, err |-> "NotADirectoryError", names |-> {}]
       ELSE IF Unreadable(fs, found.node)
       THEN [ok |-> FALSE, err |-> "PermissionError", names |-> {}]
       ELSE [ok |-> TRUE, err |-> "", names |-> Listing(found.node)]

\* FileMeta(file_path) without from_dict: os.stat, then hash_file; either
\* may raise
FileMetaStat(fs, file_path) ==
    LET file_stat == OsStat(fs, file_path)
        hashed == OsOpen(fs, file_path)
        st == FileStat(0)
    IN IF ~file_stat.ok
       THEN [ok |-> FALSE, err |-> file_stat.err, self |-> None]
       ELSE IF ~hashed.ok
       THEN [ok |-> FALSE, err |-> hashed.err, self |-> None]
       ELSE [ok |-> TRUE, err |-> "",
             self |-> [name |-> PyStr(PathSplit(file_path)[2]),
                       path |-> PyStr(file_path),
                       mode |-> PyStr(OctalText(st.st_mode % 512)),
                       uid |-> PyInt(st.st_uid),
                       gid |-> PyInt(st.st_gid),
                       size |-> PyInt(st.st_size),
                       atime |-> PyFloat(st.st_atime),
                       mtime |-> PyFloat(st.st_mtime),
                       ctime |-> PyFloat(st.st_ctime),
                       hash_value |-> PyStr("x")]]

\* one step of os.walk(top) with onerror left None: a directory that cannot
\* be listed gives no triple and no error; otherwise the triple is the
\* directory, its sub-directories and its other entries, each in the order
\* os.scandir gave them, which is left open here
OsWalkTriple(fs, top) ==
    LET scandir_it == OsScandir(fs, top)
        subs == {name \in scandir_it.names : IsDir(fs, PathJoin(top, name))}
    IN [listed |-> scandir_it.ok,
        dirs |-> subs,
        nondirs |-> scandir_it.names \ subs]

----------------------------------------------------------------------------
(* cmd_walk over walk_path and ignore_file *)

\* args.path: a directory by its relative path, with and without a leading
\* ./, and by its absolute path, a file, and two roots at once
PathD == NameD
PathDotD == <<".", "/">> \o NameD
PathAbsD == <<"/">> \o NameD
PathBTxt == PathJoin(PathJoin(NameD, NameS), NameBTxt)
PathS == PathJoin(NameD, NameS)
PathALog == PathJoin(NameD, NameALog)
RootLists ==
    {<<PathD>>, <<PathDotD>>, <<PathAbsD>>, <<PathBTxt>>, <<PathS, PathALog>>}

\* args.ignore: none, the patterns of the usage text, and two more
IgnoreLists ==
    {<<>>,
     << <<"*", ".", "l", "o", "g">>, <<".", "*">> >>,
     << <<"?", ".", "t", "x", "t">>, <<"s">> >>}

WalkInit ==
    /\ pc = "roots"
    /\ DiffIdle
    /\ GroupIdle
    /\ args \in [path : RootLists, recursive : BOOLEAN, ignore : IgnoreLists,
                 string : {<<>>}, csv : {FALSE}, json : {FALSE}]
    /\ meta_file_collection = None
    /\ json_file = None
    /\ csv_file = None
    /\ reloaded = None
    /\ fault \in Faults
    /\ path_pos = 1
    /\ walk_dirs = <<>>
    /\ walk_root = <<>>
    /\ walk_files = <<>>
    /\ cur_file_path = <<>>
    /\ ignore_path = <<>>
    /\ iterations = 0
    /\ swallowed = {}

\* what no step of the walk changes
walkFrame == <<raw_meta_data, collection, file_meta_collections,
               primary_key_values, key_pos, meta_list, diff, groupVars, args,
               json_file, csv_file, reloaded, fault>>

\* the call ignore_file(path, ignore_files): without patterns it returns
\* False at once, with patterns it enters its loop
CallIgnoreFile(path) ==
    /\ cur_file_path' = path
    /\ ignore_path' = path
    /\ iterations' = 0
    /\ pc' = IF args.ignore # <<>> THEN "ignore" ELSE "yield"

\* cmd_walk's loop over args.path: a directory among several roots is
\* passed over unless --recursive; walk_path(file_path) starts os.walk on a
\* directory and goes straight to ignore_file for anything else
NextRoot ==
    /\ pc = "roots"
    /\ path_pos <= Len(args.path)
    /\ LET file_path == args.path[path_pos]
           multi_path == Len(args.path) > 1
       IN IF IsDir(fault, file_path) /\ multi_path /\ ~args.recursive
          THEN /\ path_pos' = path_pos + 1
               /\ UNCHANGED <<pc, walk_dirs, walk_root, walk_files,
                              cur_file_path, ignore_path, iterations>>
          ELSE IF ~IsDir(fault, file_path)
          THEN /\ CallIgnoreFile(file_path)
               /\ walk_dirs' = <<>>
               /\ walk_root' = <<>>
               /\ walk_files' = <<>>
               /\ UNCHANGED path_pos
          ELSE /\ walk_dirs' = <<file_path>>
               /\ pc' = "walk"
               /\ UNCHANGED <<path_pos, walk_root, walk_files, cur_file_path,
                              ignore_path, iterations>>
    /\ UNCHANGED <<err, stdout, meta_file_collection, swallowed, walkFrame>>

\* os.walk's next triple: the directory on top is listed, in whatever order
\* os.scandir gives its names, its sub-directories are queued before the
\* others that wait; a directory that cannot be listed is dropped without a
\* word; with none left walk_path is through
OsWalkNext ==
    /\ pc = "walk"
    /\ IF walk_dirs = <<>>
       THEN /\ pc' = "roots"
            /\ path_pos' = path_pos + 1
            /\ UNCHANGED <<walk_dirs, walk_root, walk_files, swallowed>>
       ELSE LET top == Head(walk_dirs)
                triple == OsWalkTriple(fault, top)
            IN IF ~triple.listed
               THEN /\ swallowed' = swallowed \cup {top}
                    /\ walk_dirs' = Tail(walk_dirs)
                    /\ UNCHANGED <<pc, path_pos, walk_root, walk_files>>
               ELSE \E dirs \in Orderings(triple.dirs) :
                        \E files \in Orderings(triple.nondirs) :
                            /\ walk_root' = top
                            /\ walk_files' = files
                            /\ walk_dirs' =
                                   [i \in 1..Len(dirs) |->
                                       PathJoin(top, dirs[i])]
                                   \o Tail(walk_dirs)
                            /\ pc' = "files"
                            /\ UNCHANGED <<path_pos, swallowed>>
    /\ UNCHANGED <<err, stdout, meta_file_collection, cur_file_path,
                   ignore_path, iterations, walkFrame>>

\* the loop over the files of the triple: the next file goes to
\* ignore_file; after the last one walk_path breaks off unless recursive
NextFile ==
    /\ pc = "files"
    /\ IF walk_files = <<>>
       THEN /\ IF args.recursive
               THEN /\ pc' = "walk"
                    /\ UNCHANGED <<path_pos, walk_dirs>>
               ELSE /\ pc' = "roots"
                    /\ path_pos' = path_pos + 1
                    /\ walk_dirs' = <<>>
            /\ UNCHANGED <<walk_files, cur_file_path, ignore_path,
                           iterations>>
       ELSE /\ CallIgnoreFile(PathJoin(walk_root, Head(walk_files)))
            /\ walk_files' = Tail(walk_files)
            /\ UNCHANGED <<path_pos, walk_dirs>>
    /\ UNCHANGED <<err, stdout, meta_file_collection, walk_root, swallowed,
                   walkFrame>>

\* one round of "while ignore_path": an empty path ends the loop and
\* ignore_file returns False; otherwise the path is split and the name split
\* off compared with every pattern, a match returning True
IgnoreStep ==
    /\ pc = "ignore"
    /\ iterations < MaxIterations
    /\ IF ignore_path = <<>>
       THEN /\ pc' = "yield"
            /\ UNCHANGED <<ignore_path, iterations>>
       ELSE LET head == PathSplit(ignore_path)[1]
                ignore_file == PathSplit(ignore_path)[2]
            IN /\ ignore_path' = head
               /\ iterations' = iterations + 1
               /\ pc' = IF \E k \in 1..Len(args.ignore) :
                                FnMatch(ignore_file, args.ignore[k])
                        THEN "ignored"
                        ELSE "ignore"
    /\ UNCHANGED <<err, stdout, meta_file_collection, path_pos, walk_dirs,
                   walk_root, walk_files, cur_file_path, swallowed,
                   walkFrame>>

\* ignore_file returned True: continue with the next file
SkipFile ==
    /\ pc = "ignored"
    /\ pc' = "files"
    /\ UNCHANGED <<err, stdout, meta_file_collection, walkVars, walkFrame>>

\* ignore_file returned False: FileMeta(file_path) is built and yielded,
\* and cmd_walk prints its line and adds it to the collection, if any; an
\* error of os.stat or of hash_file leaves through cmd_walk
YieldFileMeta ==
    /\ pc = "yield"
    /\ LET file_meta == FileMetaStat(fault, cur_file_path)
           line == IF ~file_meta.ok
                   THEN [ok |-> FALSE, err |-> file_meta.err, text |-> <<>>]
                   ELSE IF args.string # <<>>
                   THEN ToString(file_meta.self, args.string)
                   ELSE [ok |-> TRUE, err |-> "",
                         text |-> <<PyFormat(file_meta.self.path)>>]
       IN /\ err' = line.err
          /\ pc' = IF line.ok THEN "files" ELSE "error"
          /\ stdout' = IF line.ok THEN Append(stdout, line.text) ELSE stdout
          /\ meta_file_collection' =
                 IF line.ok /\ meta_file_collection # None
                 THEN Add(meta_file_collection, file_meta.self)
                 ELSE meta_file_collection
    /\ UNCHANGED <<path_pos, walk_dirs, walk_root, walk_files, cur_file_path,
                   ignore_path, iterations, swallowed, walkFrame>>

\* after the last root: nothing is written without --csv and --json
CmdWalkReturn ==
    /\ pc = "roots"
    /\ path_pos > Len(args.path)
    /\ pc' = "done"
    /\ UNCHANGED <<err, stdout, meta_file_collection, path_pos, walk_dirs,
                   walk_root, walk_files, cur_file_path, ignore_path,
                   iterations, swallowed, walkFrame>>

WalkNext ==
    \/ NextRoot
    \/ OsWalkNext
    \/ NextFile
    \/ IgnoreStep
    \/ SkipFile
    \/ YieldFileMeta
    \/ CmdWalkReturn

SpecWalk == WalkInit /\ [][WalkNext]_vars

----------------------------------------------------------------------------
(* Claims on the walk *)

\* C11: an audit never finishes normally after having passed over a file or
\* a directory it could not read: when cmd_walk returns, os.walk has dropped
\* no listing error, and every line printed is of a file that could be
\* stat'ed and read.
C11_IoErrorsSurfaced ==
    pc = "done" =>
        /\ err = ""
        /\ swallowed = {}
        /\ \A j \in 1..Len(stdout) :
               FileMetaStat(fault, stdout[j][1].chars).ok

\* some name between the slashes of the path matches some pattern
ComponentMatches(path, ignore_files) ==
    \E i \in 1..Len(Components(path)) :
        \E k \in 1..Len(ignore_files) :
            FnMatch(Components(path)[i], ignore_files[k])

\* C12: walk_path yields an enumerated file if and only if none of the
\* names of its path, the file's and each ancestor directory's, matches any
\* pattern: a file it passes over has a matching name, a file it yields or
\* has printed has none, and once every name of the path has been compared
\* without a match ignore_file is through, leaving the file to be yielded.
C12_YieldedIffNoComponentMatches ==
    /\ pc = "ignored" => ComponentMatches(cur_file_path, args.ignore)
    /\ pc = "yield" => ~ComponentMatches(cur_file_path, args.ignore)
    /\ \A j \in 1..Len(stdout) :
           ~ComponentMatches(stdout[j][1].chars, args.ignore)
    /\ (pc = "ignore" /\ ignore_path # <<>>) =>
           iterations < Len(Components(cur_file_path))

\* C13: ignore_file terminates for every path and every non-empty list of
\* patterns, relative or absolute, matching or not: every round of its loop
\* that does not return leaves a shorter path, so that after k rounds at
\* least k characters of the path are gone and the empty path is reached.
C13_IgnoreFileTerminates ==
    pc = "ignore" =>
        iterations + Len(ignore_path) <= Len(cur_file_path)

====
